---- MODULE Spec2Model ----
(***************************************************************************)
(* The MoneyForward import pipeline of expense2: the importer              *)
(* (scripts/import_mf.py, main) and the CSV exporter (scripts/parse_mf.py, *)
(* parse_mf_raw and main), with the transaction table of app/models.py.    *)
(*                                                                         *)
(* A Python str is modelled as a sequence of characters, each character a  *)
(* one-character string.  The module text is ASCII, so the kanji that the  *)
(* programs test for are written as named characters.                      *)
(***************************************************************************)
EXTENDS Integers, Sequences, FiniteSets, TLC

VARIABLES
    mode,          \* which script is running: "import" or "export"
    pc,            \* position of the running script
    file,          \* data/mf_raw.txt: [exists, content], content its lines
    lines,         \* the stripped lines read into memory
    i,             \* the scan cursor (0-based, as in the code)
    current_year,  \* importer: an int; exporter: None or the header's 4 characters
    transactions,  \* the records parsed so far
    iters,         \* iterations of the scan loop begun in this run
    db,            \* data/finance_v2.db with its tables: [exists, content],
                   \* content the committed rows of the transaction table
    session,       \* rows added to the Session and not yet committed
    k,             \* importer: index of the next parsed record to look up
    count,         \* importer: rows added in this run
    csv,           \* data/transactions.csv: [exists, content], content its rows
    stdout,        \* what the run printed
    run,           \* number of runs started
    prev,          \* the run before this one: its mode and its input
    db0,           \* the db as it was when this run started
    csv0,          \* the CSV file as it was when this run started
    marks          \* for each parsed record, the cursor at which its block opened

vars == <<mode, pc, file, lines, i, current_year, transactions, iters, db,
          session, k, count, csv, stdout, run, prev, db0, csv0, marks>>

----------------------------------------------------------------------------
(* Characters *)

GETSU == "getsu"   \* 月
KA    == "ka"      \* 火
SUI   == "sui"     \* 水
MOKU  == "moku"    \* 木
KIN   == "kin"     \* 金
DO    == "do"      \* 土
NICHI == "nichi"   \* 日
FURI  == "furi"    \* 振
KAE   == "kae"     \* 替
YEN   == "yen"     \* 円
MI    == "mi"      \* 未
SETSU == "setsu"   \* 設
TEI   == "tei"     \* 定
BUN   == "bun"     \* 分
RUI   == "rui"     \* 類
TAB   == "\t"

Weekdays == {GETSU, KA, SUI, MOKU, KIN, DO, NICHI}
Digits == {"0", "1", "2", "3", "4", "5", "6", "7", "8", "9"}
Whitespace == {" ", TAB}

DigitVal(c) ==
    CASE c = "0" -> 0 [] c = "1" -> 1 [] c = "2" -> 2 [] c = "3" -> 3
      [] c = "4" -> 4 [] c = "5" -> 5 [] c = "6" -> 6 [] c = "7" -> 7
      [] c = "8" -> 8 [] c = "9" -> 9

DigitChar(n) ==
    CASE n = 0 -> "0" [] n = 1 -> "1" [] n = 2 -> "2" [] n = 3 -> "3"
      [] n = 4 -> "4" [] n = 5 -> "5" [] n = 6 -> "6" [] n = 7 -> "7"
      [] n = 8 -> "8" [] n = 9 -> "9"

----------------------------------------------------------------------------
(* str methods and conversions *)

RECURSIVE IntOf(_)
\* int(s) of a string of digits
IntOf(s) ==
    IF s = <<>> THEN 0
    ELSE 10 * IntOf(SubSeq(s, 1, Len(s) - 1)) + DigitVal(s[Len(s)])

RECURSIVE Strip(_)
\* s.strip()
Strip(s) ==
    IF s = <<>> THEN s
    ELSE IF s[1] \in Whitespace THEN Strip(Tail(s))
    ELSE IF s[Len(s)] \in Whitespace THEN Strip(SubSeq(s, 1, Len(s) - 1))
    ELSE s

\* s.replace(c, "") for a one-character c
Remove(s, c) == SelectSeq(s, LAMBDA x : x # c)

\* sub in s
Contains(s, sub) ==
    \E p \in 1..(Len(s) - Len(sub) + 1) : SubSeq(s, p, p + Len(sub) - 1) = sub

RECURSIVE Split(_, _)
\* s.split(c)
Split(s, c) ==
    IF \A p \in 1..Len(s) : s[p] # c THEN <<s>>
    ELSE LET p == CHOOSE q \in 1..Len(s) :
                      s[q] = c /\ \A r \in 1..(q - 1) : s[r] # c
         IN  <<SubSeq(s, 1, p - 1)>> \o Split(SubSeq(s, p + 1, Len(s)), c)

\* s.isdigit()
IsDigitStr(s) == s # <<>> /\ \A p \in 1..Len(s) : s[p] \in Digits

\* float(s): surrounding whitespace is ignored, then an optional sign and
\* digits.  The other literals float() reads (a point, an exponent,
\* underscores, "inf", "nan") need characters no input line of the model has.
FloatOk(s) ==
    LET t == Strip(s)
        u == IF t # <<>> /\ t[1] \in {"-", "+"} THEN Tail(t) ELSE t
    IN  IsDigitStr(u)

FloatVal(s) ==
    LET t == Strip(s)
    IN  IF t[1] = "-" THEN 0 - IntOf(Tail(t))
        ELSE IF t[1] = "+" THEN IntOf(Tail(t))
        ELSE IntOf(t)

\* f"{n:02d}" of a number below 100
Fmt02(n) ==
    IF n < 10 THEN <<"0", DigitChar(n)>>
    ELSE <<DigitChar(n \div 10), DigitChar(n % 10)>>

----------------------------------------------------------------------------
(* re.match: a pattern is matched from the start of the string; each piece
   maps the set of positions where it may start to the set of positions
   where it may end. *)

\* \d{lo,hi}
ReDigits(s, P, lo, hi) ==
    { q \in 1..(Len(s) + 1) :
        \E p \in P : /\ q - p \in lo..hi
                     /\ \A r \in p..(q - 1) : s[r] \in Digits }

\* a literal character, or a character class
ReOneOf(s, P, C) == { p + 1 : p \in { x \in P : x <= Len(s) /\ s[x] \in C } }

\* . (any character: a line holds no newline)
ReAny(s, P) == { p + 1 : p \in { x \in P : x <= Len(s) } }

\* \s*
ReSpaces(s, P) ==
    { q \in 1..(Len(s) + 1) :
        \E p \in P : q >= p /\ \A r \in p..(q - 1) : s[r] \in Whitespace }

\* \d{4}/\d{1,2}/\d{1,2}
ReYMD(s, P) ==
    ReDigits(s, ReOneOf(s, ReDigits(s, ReOneOf(s, ReDigits(s, P, 4, 4),
             {"/"}), 1, 2), {"/"}), 1, 2)

\* \d{1,2}/\d{1,2}\(
ReMDOpen(s, P) ==
    ReOneOf(s, ReDigits(s, ReOneOf(s, ReDigits(s, P, 1, 2), {"/"}), 1, 2), {"("})

\* the text before the first occurrence of c in s (s holds c)
Before(s, c) ==
    SubSeq(s, 1, (CHOOSE q \in 1..Len(s) :
                      s[q] = c /\ \A r \in 1..(q - 1) : s[r] # c) - 1)

\* the text after the first occurrence of c in s
After(s, c) == SubSeq(s, Len(Before(s, c)) + 2, Len(s))

----------------------------------------------------------------------------
(* The input lines of the model *)

Hdr24 == <<"2","0","2","4","/","2","/","1"," ","-"," ","2","0","2","4","/","2","/","9">>
Hdr23 == <<"2","0","2","3","/","2","/","1"," ","-"," ","2","0","2","3","/","2","/","9">>
Mk    == <<"2","/","3","(",GETSU,")">>       \* 2/3(月)
MkBad == <<"2","/","3","0","(",KA,")">>      \* 2/30(火)
MkX   == <<"2","/","4","(","X",")">>         \* 2/4(X)
TxtA  == <<"A">>
TxtB  == <<"B">>
Amt   == <<"-","4","5">>
AmtYen == <<"1",",","0","0","0",YEN>>        \* 1,000円
Det3  == <<"S",TAB,"F",TAB,"C">>
Det2  == <<"T",TAB,"G">>
TransferMark == <<"(",FURI,KAE,")">>         \* (振替)
UnsetMark == <<MI,SETSU,TEI>>                \* 未設定

----------------------------------------------------------------------------
(* The files and the table *)

NoFile == [exists |-> FALSE, content |-> <<>>]
FileOf(c) == [exists |-> TRUE, content |-> c]

\* [l.strip() for l in f]
StripAll(c) == [p \in 1..Len(c) |-> Strip(c[p])]

\* lines[j], 0-based as in the code
Line(j) == lines[j + 1]
N == Len(lines)

\* the literals of the two scripts
STR_Unknown == <<"U","n","k","n","o","w","n">>
STR_Uncategorized == <<"U","n","c","a","t","e","g","o","r","i","z","e","d">>
STR_Furikae == <<FURI, KAE>>                 \* 振替
STR_Mibunrui == <<MI, BUN, RUI>>             \* 未分類
STR_Sep == <<" ", "/", " ">>

DefaultYear == 2025

----------------------------------------------------------------------------
(* import_mf.py: the parse loop *)

\* re.match(r"(\d{4})/\d{1,2}/\d{1,2}\s*-\s*(\d{4})/\d{1,2}/\d{1,2}", line)
ImpRangeMatch(line) ==
    ReYMD(line, ReSpaces(line, ReOneOf(line, ReSpaces(line, ReYMD(line, {1})),
          {"-"}))) # {}

\* re.match(r"(\d{1,2})/(\d{1,2})\(.\)", line)
ImpDateMatch(line) == ReOneOf(line, ReAny(line, ReMDOpen(line, {1})), {")"}) # {}

\* int(m.group(1)), int(m.group(2)) of a date match
MonthOf(line) == IntOf(Before(line, "/"))
DayOf(line) == IntOf(Before(After(line, "/"), "("))

IsLeap(y) == (y % 4 = 0 /\ y % 100 # 0) \/ y % 400 = 0

DaysIn(y, m) ==
    IF m = 2 THEN (IF IsLeap(y) THEN 29 ELSE 28)
    ELSE IF m \in {4, 6, 9, 11} THEN 30 ELSE 31

\* datetime(y, m, d) returns; otherwise it raises ValueError
DateOk(y, m, d) ==
    /\ y \in 1..9999
    /\ m \in 1..12
    /\ d >= 1 /\ d <= DaysIn(y, m)

\* re.match(r"^-?[\d,]+$", amount_str.replace("円", ""))
ImpAmountShape(s) ==
    LET t == Remove(s, YEN)
        u == IF t # <<>> /\ t[1] = "-" THEN Tail(t) ELSE t
    IN  u # <<>> /\ \A p \in 1..Len(u) : u[p] \in Digits \cup {","}

\* parse_amount: the string handed to float()
AmountText(s) == Strip(Remove(Remove(s, ","), YEN))

\* the two patterns that end a block's details
ImpBoundary(line) == ImpDateMatch(line) \/ ReYMD(line, {1}) # {}

RECURSIVE ImpDetailEnd(_)
\* the inner while loop: the first j at or after the given one that is the
\* end of input or a boundary line
ImpDetailEnd(j) ==
    IF j < N /\ ~ImpBoundary(Line(j)) THEN ImpDetailEnd(j + 1) ELSE j

\* an abandoned block that leaves the cursor where it was
ImpAbandonStay(c) == c

\* the cursor after an abandoned block
ImpAbandon(c) == c + 1

\* one pass of the body of "for d in details"
ImpDetailStep(st, d) ==
    LET parts == Split(d, TAB)
        tr == st.is_transfer \/ Contains(d, TransferMark)
    IN  IF Len(parts) >= 2
        THEN [is_transfer |-> tr,
              source |-> Strip(parts[1]),
              category |-> IF Len(parts) > 2 /\ Strip(parts[3]) # <<>>
                           THEN Strip(parts[2]) \o STR_Sep \o Strip(parts[3])
                           ELSE Strip(parts[2])]
        ELSE [st EXCEPT !.is_transfer = tr]

RECURSIVE ImpDetailLoop(_, _)
ImpDetailLoop(st, details) ==
    IF details = <<>> THEN st
    ELSE ImpDetailLoop(ImpDetailStep(st, Head(details)), Tail(details))

\* source and category of a block, from its details
ImpFields(details) ==
    LET st == ImpDetailLoop([is_transfer |-> FALSE, source |-> STR_Unknown,
                             category |-> STR_Uncategorized], details)
        non_transfer_lines ==
            SelectSeq(details,
                      LAMBDA d : ~Contains(d, TransferMark) /\ d # UnsetMark)
    IN  IF st.is_transfer /\ st.category = STR_Uncategorized
        THEN [source |-> IF non_transfer_lines # <<>>
                         THEN non_transfer_lines[1] ELSE st.source,
              category |-> STR_Furikae]
        ELSE [source |-> st.source, category |-> st.category]

\* the Transaction built for the block at cursor c, whose details end at j
ImpTx(c, j) ==
    LET f == ImpFields(SubSeq(lines, c + 4, j))
    IN  [date |-> <<current_year, MonthOf(Line(c)), DayOf(Line(c))>>,
         description |-> Line(c + 1),
         amount |-> FloatVal(AmountText(Line(c + 2))),
         source |-> f.source,
         category |-> f.category]

----------------------------------------------------------------------------
(* import_mf.py: main *)

\* create_engine, SQLModel.metadata.create_all: the database file and its
\* tables are created when they do not exist
ImpCreateAll ==
    /\ mode = "import" /\ pc = "start"
    /\ db' = [exists |-> TRUE, content |-> db.content]
    /\ pc' = "open"
    /\ UNCHANGED <<mode, file, lines, i, current_year, transactions, iters,
                   session, k, count, csv, stdout, run, prev, db0, csv0, marks>>

\* except FileNotFoundError: print, return
ImpOpenMissing ==
    /\ mode = "import" /\ pc = "open"
    /\ ~file.exists
    /\ stdout' = Append(stdout, <<"Error: not found", 0>>)
    /\ pc' = "done"
    /\ UNCHANGED <<mode, file, lines, i, current_year, transactions, iters, db,
                   session, k, count, csv, run, prev, db0, csv0, marks>>

ImpOpenOk ==
    /\ mode = "import" /\ pc = "open"
    /\ file.exists
    /\ lines' = StripAll(file.content)
    /\ transactions' = <<>>
    /\ current_year' = DefaultYear
    /\ i' = 0
    /\ pc' = "scan"
    /\ UNCHANGED <<mode, file, iters, db, session, k, count, csv, stdout, run,
                   prev, db0, csv0, marks>>

\* the scan loop is left (its condition fails, or break): print, open the Session
ImpLeaveScan ==
    /\ stdout' = Append(stdout, <<"Parsed", Len(transactions)>>)
    /\ session' = <<>>
    /\ k' = 1
    /\ count' = 0
    /\ pc' = "import"

ImpHeader ==
    /\ mode = "import" /\ pc = "scan" /\ i < N
    /\ ImpRangeMatch(Line(i))
    /\ current_year' = IntOf(SubSeq(Line(i), 1, 4))
    /\ i' = i + 1
    /\ iters' = iters + 1
    /\ UNCHANGED <<mode, pc, file, lines, transactions, db, session, k, count,
                   csv, stdout, run, prev, db0, csv0, marks>>

\* datetime(current_year, month, day) raises ValueError, which nothing catches
ImpDateError ==
    /\ mode = "import" /\ pc = "scan" /\ i < N
    /\ ~ImpRangeMatch(Line(i)) /\ ImpDateMatch(Line(i))
    /\ ~DateOk(current_year, MonthOf(Line(i)), DayOf(Line(i)))
    /\ stdout' = Append(stdout, <<"Traceback: ValueError", 0>>)
    /\ pc' = "crashed"
    /\ iters' = iters + 1
    /\ UNCHANGED <<mode, file, lines, i, current_year, transactions, db,
                   session, k, count, csv, run, prev, db0, csv0, marks>>

\* if i + 2 >= len(lines): break
ImpBreak ==
    /\ mode = "import" /\ pc = "scan" /\ i < N
    /\ ~ImpRangeMatch(Line(i)) /\ ImpDateMatch(Line(i))
    /\ DateOk(current_year, MonthOf(Line(i)), DayOf(Line(i)))
    /\ i + 2 >= N
    /\ ImpLeaveScan
    /\ iters' = iters + 1
    /\ UNCHANGED <<mode, file, lines, i, current_year, transactions, db, csv,
                   run, prev, db0, csv0, marks>>

\* the amount line is not amount-shaped, or float() raises ValueError
ImpSkip ==
    /\ mode = "import" /\ pc = "scan" /\ i < N
    /\ ~ImpRangeMatch(Line(i)) /\ ImpDateMatch(Line(i))
    /\ DateOk(current_year, MonthOf(Line(i)), DayOf(Line(i)))
    /\ i + 2 < N
    /\ (~ImpAmountShape(Line(i + 2)) \/ ~FloatOk(AmountText(Line(i + 2))))
    /\ i' = ImpAbandon(i)
    /\ iters' = iters + 1
    /\ UNCHANGED <<mode, pc, file, lines, current_year, transactions, db,
                   session, k, count, csv, stdout, run, prev, db0, csv0, marks>>

ImpEmit ==
    /\ mode = "import" /\ pc = "scan" /\ i < N
    /\ ~ImpRangeMatch(Line(i)) /\ ImpDateMatch(Line(i))
    /\ DateOk(current_year, MonthOf(Line(i)), DayOf(Line(i)))
    /\ i + 2 < N
    /\ ImpAmountShape(Line(i + 2)) /\ FloatOk(AmountText(Line(i + 2)))
    /\ LET j == ImpDetailEnd(i + 3)
       IN  /\ transactions' = Append(transactions, ImpTx(i, j))
           /\ i' = j
    /\ marks' = Append(marks, i)
    /\ iters' = iters + 1
    /\ UNCHANGED <<mode, pc, file, lines, current_year, db, session, k, count,
                   csv, stdout, run, prev, db0, csv0>>

ImpOther ==
    /\ mode = "import" /\ pc = "scan" /\ i < N
    /\ ~ImpRangeMatch(Line(i)) /\ ~ImpDateMatch(Line(i))
    /\ i' = i + 1
    /\ iters' = iters + 1
    /\ UNCHANGED <<mode, pc, file, lines, current_year, transactions, db,
                   session, k, count, csv, stdout, run, prev, db0, csv0, marks>>

ImpEndScan ==
    /\ mode = "import" /\ pc = "scan" /\ i >= N
    /\ ImpLeaveScan
    /\ UNCHANGED <<mode, file, lines, i, current_year, transactions, iters, db,
                   csv, run, prev, db0, csv0, marks>>

\* the four columns the importer compares
NaturalKey(r) == <<r.date, r.description, r.amount, r.source>>

\* the rows a select sees: the committed ones and, the Session flushing
\* before each query (autoflush, the default), those added in this run
Visible == db.content \o session

\* the lookup with the source column compared against the category column
ExistingWrongColumn(tx) ==
    \E p \in 1..Len(Visible) :
        <<Visible[p].date, Visible[p].description, Visible[p].amount,
          Visible[p].category>> = NaturalKey(tx)

\* the lookup with the rows added in this run not yet flushed
ExistingCommittedOnly(tx) ==
    \E p \in 1..Len(db.content) : NaturalKey(db.content[p]) = NaturalKey(tx)

\* the lookup with the source column left out of the comparison
ExistingNoSource(tx) ==
    \E p \in 1..Len(Visible) :
        /\ Visible[p].date = tx.date
        /\ Visible[p].description = tx.description
        /\ Visible[p].amount = tx.amount

\* session.exec(select(Transaction).where(...)).first() is not None
Existing(tx) ==
    \E p \in 1..Len(Visible) : NaturalKey(Visible[p]) = NaturalKey(tx)

\* the row a Transaction becomes; the primary key is assigned by the table
RowOf(tx) ==
    [id |-> Len(Visible) + 1, date |-> tx.date, description |-> tx.description,
     amount |-> tx.amount, category |-> tx.category, source |-> tx.source]

ImpAdd ==
    /\ mode = "import" /\ pc = "import" /\ k <= Len(transactions)
    /\ ~Existing(transactions[k])
    /\ session' = Append(session, RowOf(transactions[k]))
    /\ count' = count + 1
    /\ k' = k + 1
    /\ UNCHANGED <<mode, pc, file, lines, i, current_year, transactions, iters,
                   db, csv, stdout, run, prev, db0, csv0, marks>>

ImpSkipRow ==
    /\ mode = "import" /\ pc = "import" /\ k <= Len(transactions)
    /\ Existing(transactions[k])
    /\ k' = k + 1
    /\ UNCHANGED <<mode, pc, file, lines, i, current_year, transactions, iters,
                   db, session, count, csv, stdout, run, prev, db0, csv0, marks>>

ImpCommit ==
    /\ mode = "import" /\ pc = "import" /\ k > Len(transactions)
    /\ db' = [db EXCEPT !.content = Visible]
    /\ session' = <<>>
    /\ stdout' = Append(stdout, <<"Imported", count>>)
    /\ pc' = "done"
    /\ UNCHANGED <<mode, file, lines, i, current_year, transactions, iters, k,
                   count, csv, run, prev, db0, csv0, marks>>

----------------------------------------------------------------------------
(* parse_mf.py: parse_mf_raw and main *)

\* current_year = None
NoYear == <<>>

\* re.match(r"\d{4}/\d{1,2}/\d{1,2}\s*-", line)
ExpRangeMatch(line) ==
    ReOneOf(line, ReSpaces(line, ReYMD(line, {1})), {"-"}) # {}

\* re.match(r"(\d{1,2})/(\d{1,2})\([月火水木金土日]\)", line)
ExpDateMatch(line) ==
    ReOneOf(line, ReOneOf(line, ReMDOpen(line, {1}), Weekdays), {")"}) # {}

\* f"{current_year}-{month:02d}-{day:02d}"
ExpDate(y, m, d) == y \o <<"-">> \o Fmt02(m) \o <<"-">> \o Fmt02(d)

\* the cursor after a block whose amount line, at cursor a, float() refuses
ExpAbandon(a) == a + 1

\* category, source and the cursor after them, from the lines at p0 on
\* (p0 is the line after the amount line)
ExpFields(p0) ==
    LET tr == p0 < N /\ Line(p0) = TransferMark
        p1 == IF tr THEN p0 + 1 ELSE p0
        cat0 == IF tr THEN STR_Furikae ELSE STR_Mibunrui
        dflt == [source |-> UnsetMark, category |-> cat0,
                 subcategory |-> STR_Mibunrui, next |-> p1]
        Bound(l) == ExpDateMatch(l) \/ ExpRangeMatch(l)
    IN  IF p1 >= N THEN dflt
        ELSE LET parts == Split(Line(p1), TAB)
             IN  IF Len(parts) >= 3
                 THEN [source |-> parts[1], category |-> parts[2],
                       subcategory |-> parts[3], next |-> p1 + 1]
                 ELSE IF Len(parts) = 1 /\ ~Bound(Line(p1))
                 THEN LET p2 == p1 + 1
                          ps == Line(p2)
                          more == /\ p2 < N
                                  /\ ~Bound(ps)
                                  /\ ~(ps # <<>> /\ ps[1] = "-")
                                  /\ ~IsDigitStr(Remove(Remove(ps, ","), "-"))
                      IN  [source |-> IF more THEN ps ELSE parts[1],
                           category |-> cat0, subcategory |-> STR_Mibunrui,
                           next |-> IF more THEN p2 + 1 ELSE p2]
                 ELSE dflt

\* the dict appended for the block at cursor c
ExpTx(c) ==
    LET f == ExpFields(c + 3)
    IN  [date |-> ExpDate(current_year, MonthOf(Line(c)), DayOf(Line(c))),
         description |-> Line(c + 1),
         amount |-> FloatVal(Remove(Line(c + 2), ",")),
         category |-> IF f.subcategory # STR_Mibunrui
                      THEN f.category \o STR_Sep \o f.subcategory
                      ELSE f.category,
         source |-> f.source]

\* open(raw_file) raises FileNotFoundError, which nothing catches
ExpOpenMissing ==
    /\ mode = "export" /\ pc = "start"
    /\ ~file.exists
    /\ stdout' = Append(stdout, <<"Traceback: FileNotFoundError", 0>>)
    /\ pc' = "crashed"
    /\ UNCHANGED <<mode, file, lines, i, current_year, transactions, iters, db,
                   session, k, count, csv, run, prev, db0, csv0, marks>>

ExpOpenOk ==
    /\ mode = "export" /\ pc = "start"
    /\ file.exists
    /\ lines' = StripAll(file.content)
    /\ transactions' = <<>>
    /\ current_year' = NoYear
    /\ i' = 0
    /\ pc' = "scan"
    /\ UNCHANGED <<mode, file, iters, db, session, k, count, csv, stdout, run,
                   prev, db0, csv0, marks>>

ExpHeader ==
    /\ mode = "export" /\ pc = "scan" /\ i < N
    /\ ExpRangeMatch(Line(i))
    /\ current_year' = SubSeq(Line(i), 1, 4)
    /\ i' = i + 1
    /\ iters' = iters + 1
    /\ UNCHANGED <<mode, pc, file, lines, transactions, db, session, k, count,
                   csv, stdout, run, prev, db0, csv0, marks>>

\* the block opens: a date marker, and a year is known
ExpOpens ==
    /\ mode = "export" /\ pc = "scan" /\ i < N
    /\ ~ExpRangeMatch(Line(i))
    /\ ExpDateMatch(Line(i)) /\ current_year # NoYear

\* the description or the amount line is past the end of input: break
ExpBreak ==
    /\ ExpOpens
    /\ i + 2 >= N
    /\ i' = IF i + 1 >= N THEN i + 1 ELSE i + 2
    /\ pc' = "write"
    /\ iters' = iters + 1
    /\ UNCHANGED <<mode, file, lines, current_year, transactions, db, session,
                   k, count, csv, stdout, run, prev, db0, csv0, marks>>

\* float(amount_str) raises ValueError
ExpSkip ==
    /\ ExpOpens
    /\ i + 2 < N
    /\ ~FloatOk(Remove(Line(i + 2), ","))
    /\ i' = ExpAbandon(i + 2)
    /\ iters' = iters + 1
    /\ UNCHANGED <<mode, pc, file, lines, current_year, transactions, db,
                   session, k, count, csv, stdout, run, prev, db0, csv0, marks>>

ExpEmit ==
    /\ ExpOpens
    /\ i + 2 < N
    /\ FloatOk(Remove(Line(i + 2), ","))
    /\ transactions' = Append(transactions, ExpTx(i))
    /\ i' = ExpFields(i + 3).next
    /\ marks' = Append(marks, i)
    /\ iters' = iters + 1
    /\ UNCHANGED <<mode, pc, file, lines, current_year, db, session, k, count,
                   csv, stdout, run, prev, db0, csv0>>

ExpOther ==
    /\ mode = "export" /\ pc = "scan" /\ i < N
    /\ ~ExpRangeMatch(Line(i))
    /\ ~(ExpDateMatch(Line(i)) /\ current_year # NoYear)
    /\ i' = i + 1
    /\ iters' = iters + 1
    /\ UNCHANGED <<mode, pc, file, lines, current_year, transactions, db,
                   session, k, count, csv, stdout, run, prev, db0, csv0, marks>>

ExpEndScan ==
    /\ mode = "export" /\ pc = "scan" /\ i >= N
    /\ pc' = "write"
    /\ UNCHANGED <<mode, file, lines, i, current_year, transactions, iters, db,
                   session, k, count, csv, stdout, run, prev, db0, csv0, marks>>

\* main: the CSV file is opened for writing and every record written
ExpWrite ==
    /\ mode = "export" /\ pc = "write"
    /\ csv' = FileOf(transactions)
    /\ stdout' = Append(stdout, <<"Exported", Len(transactions)>>)
    /\ pc' = "done"
    /\ UNCHANGED <<mode, file, lines, i, current_year, transactions, iters, db,
                   session, k, count, run, prev, db0, csv0, marks>>

----------------------------------------------------------------------------
(* Runs and inputs *)

MaxItems == 3
MaxRuns == 3

\* pieces of input text: headers, whole blocks, a block cut short before its
\* amount line, a block with an impossible date, single detail lines, and a
\* lone amount line
Items ==
    << <<Hdr24>>, <<Hdr23>>,
       <<Hdr24, Mk, TxtA, Amt>>, <<Mk, TxtA, Amt>>, <<Mk, TxtB, AmtYen>>,
       <<Mk, TxtA>>, <<MkBad, TxtA, Amt>>,
       <<Det3>>, <<Det2>>, <<TransferMark>>, <<UnsetMark>>, <<TxtB>>,
       <<Amt>> >>

RECURSIVE Flatten(_)
Flatten(its) ==
    IF its = <<>> THEN <<>> ELSE Items[Head(its)] \o Flatten(Tail(its))

\* every text made of at most MaxItems pieces
ParseInputs ==
    { Flatten(its) : its \in UNION { [1..n -> 1..Len(Items)] : n \in 0..MaxItems } }

\* the texts the scripts are re-run on: one block after a stray line, the
\* same text grown by a block, a text holding the same block twice and once
\* more with another source, a text the parse fails on, a text with a
\* block that has no amount and a block cut off by the end of input, and a
\* text whose date marker carries a weekday that is no kanji
ImportInputs ==
    { <<TxtB, Hdr24, Mk, TxtA, Amt>>,
      <<TxtB, Hdr24, Mk, TxtA, Amt, Mk, TxtB, AmtYen, Det3>>,
      <<Hdr24, Mk, TxtA, Amt, Hdr24, Mk, TxtA, Amt, Mk, TxtA, Amt, Det3>>,
      <<Hdr24, Mk, TxtA, Amt, MkBad, TxtA, Amt>>,
      <<Hdr24, Mk, TxtA, TxtB, Mk, TxtA>>,
      <<Hdr24, MkX, TxtB, Amt>> }

\* a row the importer wrote in an earlier run
SeedRow ==
    [id |-> 1, date |-> <<2024, 2, 3>>, description |-> TxtA, amount |-> 0 - 45,
     category |-> STR_Uncategorized, source |-> STR_Unknown]

NoRun == [mode |-> "none", file |-> NoFile]

\* a script is started as a new process: its locals do not exist yet
Fresh ==
    /\ lines = <<>> /\ i = 0 /\ current_year = NoYear /\ transactions = <<>>
    /\ iters = 0 /\ session = <<>> /\ k = 1 /\ count = 0 /\ stdout = <<>>
    /\ marks = <<>>

Init ==
    /\ mode = "none" /\ pc = "idle" /\ file = NoFile
    /\ Fresh
    /\ db \in { NoFile, FileOf(<<>>), FileOf(<<SeedRow>>) }
    /\ csv = NoFile
    /\ run = 0 /\ prev = NoRun /\ db0 = db /\ csv0 = csv

\* the operator puts a text (or nothing) at data/mf_raw.txt and starts a script
StartRun ==
    /\ pc \in {"idle", "done", "crashed"}
    /\ run < MaxRuns
    /\ \E m \in {"import", "export"} :
       \E f \in {NoFile} \cup { FileOf(c) : c \in ImportInputs } :
          /\ mode' = m
          /\ file' = f
    /\ pc' = "start"
    /\ lines' = <<>> /\ i' = 0 /\ current_year' = NoYear /\ transactions' = <<>>
    /\ iters' = 0 /\ session' = <<>> /\ k' = 1 /\ count' = 0 /\ stdout' = <<>>
    /\ marks' = <<>>
    /\ run' = run + 1
    /\ prev' = [mode |-> mode, file |-> file]
    /\ db0' = db
    /\ csv0' = csv
    /\ UNCHANGED <<db, csv>>

\* one run of either script, on any text of ParseInputs or on no file
InitParse ==
    /\ mode \in {"import", "export"}
    /\ file \in {NoFile} \cup { FileOf(c) : c \in ParseInputs }
    /\ pc = "start"
    /\ Fresh
    /\ db = NoFile
    /\ csv = NoFile
    /\ run = 1 /\ prev = NoRun /\ db0 = db /\ csv0 = csv

NextParse ==
    \/ ImpCreateAll \/ ImpOpenMissing \/ ImpOpenOk
    \/ ImpHeader \/ ImpDateError \/ ImpBreak \/ ImpSkip \/ ImpEmit \/ ImpOther
    \/ ImpEndScan \/ ImpAdd \/ ImpSkipRow \/ ImpCommit
    \/ ExpOpenMissing \/ ExpOpenOk
    \/ ExpHeader \/ ExpBreak \/ ExpSkip \/ ExpEmit \/ ExpOther
    \/ ExpEndScan \/ ExpWrite

Next == StartRun \/ NextParse

Spec == Init /\ [][Next]_vars

SpecParse == InitParse /\ [][NextParse]_vars

----------------------------------------------------------------------------
(* Properties of the importer's store *)

Keys(rows) == { NaturalKey(rows[p]) : p \in 1..Len(rows) }

IsProperPrefix(a, b) == Len(a) < Len(b) /\ SubSeq(b, 1, Len(a)) = a

\* C1: when the importer is run twice in a row on the same input, the second
\* run adds no row: throughout it the table is what the first run left, and
\* every parsed record is skipped.
C1_SecondRunInsertsNothing ==
    (mode = "import" /\ prev.mode = "import" /\ prev.file = file) =>
        /\ db = db0
        /\ session = <<>>
        /\ count = 0

\* the second of two runs on one text has skipped all three of its records
C1_Witness ==
    /\ mode = "import" /\ prev.mode = "import" /\ prev.file = file
    /\ pc = "done"
    /\ Len(transactions) = 3 /\ k = 4 /\ count = 0
    /\ db.content # <<>>

\* C2: no two rows, committed or added in the running Session, share
\* (date, description, amount, source).
C2_UniqueKeys ==
    \A p, q \in 1..Len(Visible) :
        NaturalKey(Visible[p]) = NaturalKey(Visible[q]) => p = q

\* a run on an empty table whose text holds one block twice: three records
\* parsed, two rows written
C2_Witness ==
    /\ mode = "import" /\ pc = "done"
    /\ db0.content = <<>>
    /\ Len(transactions) = 3
    /\ transactions[1] = transactions[2]
    /\ Len(db.content) = 2

\* C4: a run that reaches its import pass adds one row for each distinct
\* parsed key that the table did not hold, and nothing else: the old rows
\* stay, and the keys afterwards are the old keys and the parsed keys.  A run
\* that stops before its import pass leaves the rows as they were.
C4_InsertsExactlyNewKeys ==
    /\ (mode = "import" /\ pc = "done" /\ file.exists) =>
          /\ Keys(db.content) = Keys(db0.content) \cup Keys(transactions)
          /\ count = Cardinality(Keys(transactions) \ Keys(db0.content))
          /\ Len(db.content) = Len(db0.content) + count
          /\ SubSeq(db.content, 1, Len(db0.content)) = db0.content
    /\ (mode = "import" /\ (pc = "crashed" \/ ~file.exists)) =>
          db.content = db0.content

\* the text of the run before has grown by one block: two records parsed,
\* the added one written
C4_Witness ==
    /\ mode = "import" /\ pc = "done"
    /\ prev.mode = "import" /\ prev.file.exists /\ file.exists
    /\ IsProperPrefix(prev.file.content, file.content)
    /\ Len(transactions) = 2 /\ count = 1
    /\ NaturalKey(db.content[Len(db.content)]) = NaturalKey(transactions[2])

----------------------------------------------------------------------------
(* The input format as the specification words it, for the properties of
   the parse *)

\* the whole line is M/D(weekday), the weekday one of the seven kanji
IsMarkerLine(l) ==
    (Len(l) + 1) \in ReOneOf(l, ReOneOf(l, ReMDOpen(l, {1}), Weekdays), {")"})

\* the whole line is YYYY/M/D - YYYY/M/D
IsHeaderLine(l) ==
    (Len(l) + 1) \in
        ReYMD(l, ReSpaces(l, ReOneOf(l, ReSpaces(l, ReYMD(l, {1})), {"-"})))

\* digits with an optional leading minus, optional thousands commas and an
\* optional trailing currency glyph
IsAmountLine(l) ==
    LET a == IF l # <<>> /\ l[Len(l)] = YEN THEN SubSeq(l, 1, Len(l) - 1) ELSE l
        b == IF a # <<>> /\ a[1] = "-" THEN Tail(a) ELSE a
        g == Split(b, ",")
    IN  \/ IsDigitStr(b)
        \/ /\ IsDigitStr(g[1]) /\ Len(g[1]) <= 3
           /\ \A n \in 2..Len(g) : IsDigitStr(g[n]) /\ Len(g[n]) = 3

\* the signed number an amount line states
AmountOf(l) == FloatVal(Remove(Remove(l, ","), YEN))

RECURSIVE DetailsEnd(_)
\* the end of the details that start at cursor j: the next date marker or
\* range header, or the end of input
DetailsEnd(j) ==
    IF j < N /\ ~IsMarkerLine(Line(j)) /\ ~IsHeaderLine(Line(j))
    THEN DetailsEnd(j + 1) ELSE j

RECURSIVE Blocks(_, _)
\* the blocks of the input from cursor p on, y being the year in force: a
\* date marker whose amount line is amount-shaped opens a well-formed block,
\* any other date marker a dropped one, after which the scan resumes on the
\* next line
Blocks(p, y) ==
    IF p >= N THEN <<>>
    ELSE IF IsHeaderLine(Line(p)) THEN Blocks(p + 1, IntOf(SubSeq(Line(p), 1, 4)))
    ELSE IF ~IsMarkerLine(Line(p)) THEN Blocks(p + 1, y)
    ELSE IF p + 2 < N /\ IsAmountLine(Line(p + 2))
    THEN << [at |-> p, ok |-> TRUE, year |-> y,
             description |-> Line(p + 1), amount |-> AmountOf(Line(p + 2)),
             details |-> SubSeq(lines, p + 4, DetailsEnd(p + 3))] >>
         \o Blocks(DetailsEnd(p + 3), y)
    ELSE << [at |-> p, ok |-> FALSE, year |-> y, description |-> <<>>,
             amount |-> 0, details |-> <<>>] >> \o Blocks(p + 1, y)

AllBlocks == Blocks(0, DefaultYear)
GoodBlocks == SelectSeq(AllBlocks, LAMBDA b : b.ok)

RECURSIVE OnlyBlocks(_)
\* the input from cursor p on is made of range headers and well-formed
\* blocks and nothing else
OnlyBlocks(p) ==
    IF p >= N THEN TRUE
    ELSE IF IsHeaderLine(Line(p)) THEN OnlyBlocks(p + 1)
    ELSE /\ IsMarkerLine(Line(p))
         /\ p + 2 < N /\ IsAmountLine(Line(p + 2))
         /\ OnlyBlocks(DetailsEnd(p + 3))

\* the scan loop of the running script has ended normally
ParseDone == pc \in {"import", "write", "done"} /\ file.exists

\* the year of a parsed record
YearOf(tx) ==
    IF mode = "import" THEN tx.date[1] ELSE IntOf(SubSeq(tx.date, 1, 4))

RECURSIVE YearAt(_)
\* the year of the most recent range header before cursor p, or the default
YearAt(p) ==
    IF p = 0 THEN DefaultYear
    ELSE IF IsHeaderLine(Line(p - 1)) THEN IntOf(SubSeq(Line(p - 1), 1, 4))
    ELSE YearAt(p - 1)

\* some parsed record was opened at cursor p with this description and amount
Emitted(p, description, amount) ==
    \E n \in 1..Len(transactions) :
        /\ marks[n] = p
        /\ transactions[n].description = description
        /\ transactions[n].amount = amount

\* the amount lines of the well-formed blocks are a sign and digits with
\* optional commas, without the currency glyph
NoGlyph ==
    \A n \in 1..Len(GoodBlocks) :
        ~Contains(Line(GoodBlocks[n].at + 2), <<YEN>>)

----------------------------------------------------------------------------
(* Properties of the parse *)

\* C3: on an input made of range headers and well-formed blocks, the parse
\* yields one record per block, in the order of the blocks, with the block's
\* description and signed amount.
C3_OneRecordPerBlock ==
    (ParseDone /\ OnlyBlocks(0)) =>
        /\ Len(transactions) = Len(GoodBlocks)
        /\ \A n \in 1..Len(transactions) :
              /\ marks[n] = GoodBlocks[n].at
              /\ transactions[n].description = GoodBlocks[n].description
              /\ transactions[n].amount = GoodBlocks[n].amount

\* C5: a block whose amount line is not amount-shaped yields no record, and
\* every well-formed block whose date marker is at or after that line yields
\* its record.  Stated for inputs that open with a range header and carry no
\* currency glyph, so that nothing but the malformed amount is irregular.
C5_MalformedAmountDropsOnlyItsBlock ==
    (ParseDone /\ N > 0 /\ IsHeaderLine(Line(0)) /\ NoGlyph) =>
        \A d \in 1..Len(AllBlocks) :
            (~AllBlocks[d].ok /\ AllBlocks[d].at + 2 < N) =>
                /\ \A n \in 1..Len(marks) : marks[n] # AllBlocks[d].at
                /\ \A g \in 1..Len(GoodBlocks) :
                      GoodBlocks[g].at >= AllBlocks[d].at + 2 =>
                          Emitted(GoodBlocks[g].at, GoodBlocks[g].description,
                                  GoodBlocks[g].amount)

\* C6: every record carries the year of the most recent range header before
\* its date marker, and a well-formed block before any range header is
\* emitted, with the default year.  Stated for inputs in which every date
\* marker opens a well-formed block whose amount carries no currency glyph.
C6_YearResolution ==
    (AllBlocks = GoodBlocks /\ NoGlyph) =>
    /\ \A n \in 1..Len(transactions) :
          YearOf(transactions[n]) = YearAt(marks[n])
    /\ ParseDone =>
          \A g \in 1..Len(GoodBlocks) :
              (\A q \in 0..(GoodBlocks[g].at - 1) : ~IsHeaderLine(Line(q))) =>
                  \E n \in 1..Len(transactions) :
                      /\ marks[n] = GoodBlocks[g].at
                      /\ YearOf(transactions[n]) = DefaultYear

\* C7: whatever the input holds, no exception ends the run, and no record
\* is emitted for a date marker whose month and day are no date of the
\* year in force.
C7_NoCrashBadDateDropped ==
    file.exists =>
        /\ pc # "crashed"
        /\ \A n \in 1..Len(transactions) :
              DateOk(YearAt(marks[n]), MonthOf(Line(marks[n])),
                     DayOf(Line(marks[n])))

\* C8: with no input file, a run parses nothing and writes nothing: the
\* database and the CSV file stay as they were (an absent one stays absent),
\* and the error is reported.
C8_MissingInputWritesNothing ==
    (mode # "none" /\ ~file.exists) =>
        /\ db = db0
        /\ csv = csv0
        /\ transactions = <<>>
        /\ (pc \in {"done", "crashed"} => stdout # <<>>)

\* C9: an iteration of the scan loop leaves the loop or moves the cursor
\* forward, the cursor never moves back nor past the end, and the loop runs
\* at most once per line.
C9_ScanTerminates ==
    /\ [](i <= N /\ iters <= N)
    /\ [][pc = "scan" => (i' >= i /\ (pc' = "scan" => i' > i))]_vars

\* the importer's scan has ended after abandoning one block and emitting
\* another
C9_Witness ==
    /\ mode = "import" /\ pc = "import"
    /\ i = N /\ N >= 5 /\ iters >= 3
    /\ Len(AllBlocks) > Len(GoodBlocks)
    /\ Len(transactions) >= 1

\* the fields of the first detail line of a block that holds a tab
FirstMultiField(details) ==
    Split(SelectSeq(details, LAMBDA d : Len(Split(d, TAB)) >= 2)[1], TAB)

\* C10: when the details of a block hold a line of two or more tab-separated
\* fields, the record's source is field 0 of the first such line and its
\* category field 1, with a non-empty field 2 appended after " / ".
C10_FirstMultiFieldLine ==
    \A n \in 1..Len(transactions) :
        LET details == SubSeq(lines, marks[n] + 4, DetailsEnd(marks[n] + 3))
        IN  (\E x \in 1..Len(details) : Len(Split(details[x], TAB)) >= 2) =>
                LET parts == FirstMultiField(details)
                IN  /\ transactions[n].source = Strip(parts[1])
                    /\ transactions[n].category =
                          IF Len(parts) > 2 /\ Strip(parts[3]) # <<>>
                          THEN Strip(parts[2]) \o STR_Sep \o Strip(parts[3])
                          ELSE Strip(parts[2])

\* the source a script gives a record when it finds none
UnsetSource == IF mode = "import" THEN STR_Unknown ELSE UnsetMark

\* C11: when the details of a block hold the transfer marker, at any
\* position, and no line of two or more tab-separated fields, the record's
\* category is the transfer category and its source is the first detail
\* line that is neither the transfer marker nor the "unset" literal (the
\* script's unset default when there is none), never the transfer marker.
C11_TransferBlock ==
    \A n \in 1..Len(transactions) :
        LET details == SubSeq(lines, marks[n] + 4, DetailsEnd(marks[n] + 3))
            labels == SelectSeq(details,
                                LAMBDA d : d # TransferMark /\ d # UnsetMark)
        IN  (/\ \E x \in 1..Len(details) : details[x] = TransferMark
             /\ \A x \in 1..Len(details) : Len(Split(details[x], TAB)) < 2) =>
                /\ transactions[n].category = STR_Furikae
                /\ transactions[n].source =
                      IF labels # <<>> THEN labels[1] ELSE UnsetSource
                /\ transactions[n].source # TransferMark

----------------------------------------------------------------------------
(* The two parsers on one input *)

\* (date, description, amount) of the importer's records, the date as
\* (year, month, day)
ImpTriples(txs) ==
    [n \in 1..Len(txs) |-> <<txs[n].date, txs[n].description, txs[n].amount>>]

\* the same of the exporter's records, whose date is the text YYYY-MM-DD
ExpTriples(txs) ==
    [n \in 1..Len(txs) |->
        LET d == Split(txs[n].date, "-")
        IN  << <<IntOf(d[1]), IntOf(d[2]), IntOf(d[3])>>,
               txs[n].description, txs[n].amount >>]

\* the importer has finished its scan of the text that the exporter, run
\* just before it, wrote to the CSV file
BothParsed ==
    /\ mode = "import" /\ pc \in {"import", "done"} /\ file.exists
    /\ prev.mode = "export" /\ prev.file = file

\* C12: on one input the two parsers emit the same number of records, with
\* the same (date, description, amount) in the same order.  Stated for an
\* importer scan that runs to its end.
C12_ParsersAgree ==
    BothParsed => ImpTriples(transactions) = ExpTriples(csv.content)

====
